---------------------------- MODULE Spec2Model ----------------------------
(***************************************************************************)
(* A model of package vlog: the level registry (vlog.go: newVar,           *)
(* setLevels, parseFlag, parseLevel, printLevelVars, the emit methods and  *)
(* Vset) and the rotating file logger (rotate_log.go).                     *)
(*                                                                         *)
(* Strings are sequences of one-character strings, so that parsing,        *)
(* prefix matching and byte-wise ordering are computed as the code         *)
(* computes them.                                                          *)
(***************************************************************************)
EXTENDS Integers, Sequences, FiniteSets, TLC

VARIABLES
    levelVars,   \* vlog.go: var levelVars []*levelVar; levelVars[1] is the default cell
    call,        \* the registry operation that has just run ("none" when idle)
    out,         \* the lines that operation handed to lg.Log
    firstSeen    \* history: the names given to New, in the order of their first call

VARIABLES
    pass,        \* a setLevels call running beside other goroutines: where it is
    seen,        \* the level an emit method running beside it has just read
    vset         \* the Vset calls running beside each other: where each one is

concVars == <<pass, seen, vset>>

VARIABLES
    lastConf     \* history: what the last setLevels call that returned was given

regVars == <<levelVars, call, out, firstSeen, concVars, lastConf>>

VARIABLES
    mu,          \* rotateLogger.mu: the goroutine that holds it, or NoOne
    files,       \* the files os.Create made, in order; the last one is rl.f
    buf,         \* rl.wr: what the bufio.Writer of rl.f holds
    nbytes,      \* rl.nbytes
    nextID,      \* rl.nextID
    pc,          \* where each goroutine is in Log or Flush
    arg,         \* the line of each goroutine's Log call
    crashed,     \* rotate panicked: the process is gone
    lens,        \* history: len(s) of every Log call, in the order of the calls
    written,     \* history: the lines handed to rl.lg.Output, in that order
    locked,      \* history: the Log calls that took rl.mu, in that order
    rotations,   \* history: the rotations done by Log calls
    synced       \* history: a Flush has run since the last Output

sinkVars ==
    <<mu, files, buf, nbytes, nextID, pc, arg, crashed, lens, written, locked, rotations,
      synced>>

-----------------------------------------------------------------------------
(* Bounds of the model *)

\* the number of non-default cells the registry may hold
MaxCells == 2

\* the number of rules in one configuration string
MaxRules == 2

-----------------------------------------------------------------------------
(* Levels: const ( v2 Level = -2 + iota; v1; info; err ) *)

v2 == -2

v1 == -1

info == 0

err == 1

Levels == {v2, v1, info, err}

-----------------------------------------------------------------------------
(* Strings *)

\* the characters of the model in byte order (Go compares strings byte-wise)
AsciiOrder ==
    << "*", ",", "-", "/", "1", "2", "=", "A", "B", "E", "I", "V",
       "a", "b", "c", "d", "e", "f", "i", "n", "o", "r", "v", "w" >>

Ord(c) == CHOOSE i \in 1..Len(AsciiOrder) : AsciiOrder[i] = c

\* a < b as Go's string comparison (sort.Strings)
RECURSIVE StrLess(_, _)
StrLess(a, b) ==
    IF b = <<>> THEN FALSE
    ELSE IF a = <<>> THEN TRUE
    ELSE IF Head(a) = Head(b) THEN StrLess(Tail(a), Tail(b))
    ELSE Ord(Head(a)) < Ord(Head(b))

\* strings.ToLower on one character
LowerChar(c) ==
    CASE c = "A" -> "a"
      [] c = "B" -> "b"
      [] c = "E" -> "e"
      [] c = "I" -> "i"
      [] c = "V" -> "v"
      [] OTHER -> c

ToLower(s) == [i \in 1..Len(s) |-> LowerChar(s[i])]

\* strings.Index(s, c) for a one-character c, as a 1-based position; 0 when absent
Index(s, c) ==
    IF \E i \in 1..Len(s) : s[i] = c
    THEN CHOOSE i \in 1..Len(s) : s[i] = c /\ \A j \in 1..(i - 1) : s[j] # c
    ELSE 0

Contains(s, c) == \E i \in 1..Len(s) : s[i] = c

HasPrefix(s, p) == Len(p) <= Len(s) /\ SubSeq(s, 1, Len(p)) = p

HasSuffix(s, p) == Len(p) <= Len(s) /\ SubSeq(s, Len(s) - Len(p) + 1, Len(s)) = p

\* strings.TrimRight(s, "/")
RECURSIVE TrimRightSlash(_)
TrimRightSlash(s) ==
    IF s # <<>> /\ s[Len(s)] = "/" THEN TrimRightSlash(SubSeq(s, 1, Len(s) - 1)) ELSE s

\* sort.Strings: the strings of S in ascending order
RECURSIVE SortStrings(_)
SortStrings(S) ==
    IF S = {} THEN <<>>
    ELSE LET m == CHOOSE x \in S : \A y \in S \ {x} : StrLess(x, y)
         IN  <<m>> \o SortStrings(S \ {m})

\* m[k] = v on a Go map
MapPut(m, k, v) == [x \in DOMAIN m \cup {k} |-> IF x = k THEN v ELSE m[x]]

EmptyMap == [x \in {} |-> info]

-----------------------------------------------------------------------------
(* parseLevel, parseFlag *)

\* parseLevel with the token "err" left out of its switch
parseLevelNoErr(lvs) ==
    LET t == ToLower(lvs) IN
    CASE t \in {<<"2">>, <<"v", "2">>} -> [lv |-> v2, logged |-> FALSE]
      [] t \in {<<"1">>, <<"v", "1">>} -> [lv |-> v1, logged |-> FALSE]
      [] t \in {<<"i">>, <<"i", "n", "f", "o">>} -> [lv |-> info, logged |-> FALSE]
      [] t \in {<<"e">>} -> [lv |-> err, logged |-> FALSE]
      [] OTHER -> [lv |-> info, logged |-> TRUE]

\* parseLevel whose default case returns err instead of info
parseLevelDefaultErr(lvs) ==
    LET t == ToLower(lvs) IN
    CASE t \in {<<"2">>, <<"v", "2">>} -> [lv |-> v2, logged |-> FALSE]
      [] t \in {<<"1">>, <<"v", "1">>} -> [lv |-> v1, logged |-> FALSE]
      [] t \in {<<"i">>, <<"i", "n", "f", "o">>} -> [lv |-> info, logged |-> FALSE]
      [] t \in {<<"e">>, <<"e", "r", "r">>} -> [lv |-> err, logged |-> FALSE]
      [] OTHER -> [lv |-> err, logged |-> TRUE]

\* parseLevel: the level of a token; an unknown token is logged and read as info
parseLevel(lvs) ==
    LET t == ToLower(lvs) IN
    CASE t \in {<<"2">>, <<"v", "2">>} -> [lv |-> v2, logged |-> FALSE]
      [] t \in {<<"1">>, <<"v", "1">>} -> [lv |-> v1, logged |-> FALSE]
      [] t \in {<<"i">>, <<"i", "n", "f", "o">>} -> [lv |-> info, logged |-> FALSE]
      [] t \in {<<"e">>, <<"e", "r", "r">>} -> [lv |-> err, logged |-> FALSE]
      [] OTHER -> [lv |-> info, logged |-> TRUE]

\* the loop of parseFlag over the rest s of the value; panicked |-> TRUE is a panic
RECURSIVE parseLoop(_, _, _, _)
parseLoop(s, exact, prefix, logs) ==
    IF s = <<>>
    THEN [panicked |-> FALSE, exact |-> exact, prefix |-> prefix, logs |-> logs]
    ELSE
    LET i    == Index(s, ",")
        rule == IF i > 0 THEN SubSeq(s, 1, i - 1) ELSE s
        rest == IF i > 0 THEN SubSeq(s, i + 1, Len(s)) ELSE <<>>
        j    == Index(rule, "=")
    IN
    IF j = 0
    THEN [panicked |-> TRUE, exact |-> exact, prefix |-> prefix, logs |-> logs]
    ELSE
    LET v    == SubSeq(rule, j + 1, Len(rule))
        pl   == parseLevel(v)
        lg2  == IF pl.logged THEN Append(logs, "ignore invalid logging level") ELSE logs
        k    == ToLower(SubSeq(rule, 1, j - 1))
        pre  == k = <<"*">> \/ HasSuffix(k, <<"/", "*">>)
        k1   == IF pre THEN SubSeq(k, 1, Len(k) - 1) ELSE k
        bad  == [panicked |-> TRUE, exact |-> exact, prefix |-> prefix, logs |-> lg2]
    IN
    IF pre /\ Contains(k1, "*") THEN bad
    ELSE IF ~pre /\ Contains(k, "*") THEN bad
    ELSE
    LET k2 == TrimRightSlash(k1) IN
    IF pre
    THEN parseLoop(rest, exact, MapPut(prefix, k2 \o <<"/">>, pl.lv), lg2)
    ELSE parseLoop(rest, MapPut(exact, k2, pl.lv), prefix, lg2)

parseFlag(value) == parseLoop(value, EmptyMap, EmptyMap, <<>>)

-----------------------------------------------------------------------------
(* setLevels *)

\* the inner loop of setLevels without its break: the last match is kept
RECURSIVE scanPrefixesNoBreak(_, _, _, _, _)
scanPrefixesNoBreak(name, cur, prefixes, i, prefix) ==
    IF i = 0 THEN cur
    ELSE LET k == prefixes[i] IN
         IF name = SubSeq(k, 1, Len(k) - 1) \/ HasPrefix(name, k)
         THEN scanPrefixesNoBreak(name, prefix[k], prefixes, i - 1, prefix)
         ELSE scanPrefixesNoBreak(name, cur, prefixes, i - 1, prefix)

\* the inner loop of setLevels: prefixes[i], prefixes[i-1], ... down to the first
\* one that matches name; cur is kept when none does
RECURSIVE scanPrefixes(_, _, _, _, _)
scanPrefixes(name, cur, prefixes, i, prefix) ==
    IF i = 0 THEN cur
    ELSE LET k == prefixes[i] IN
         IF name = SubSeq(k, 1, Len(k) - 1) \/ HasPrefix(name, k)
         THEN prefix[k]
         ELSE scanPrefixes(name, cur, prefixes, i - 1, prefix)

\* setLevels taking the default level from whichever prefix rule sorts last
setDefaultAnyPrefix(lvs, prefix) ==
    IF DOMAIN prefix # {}
    THEN LET sorted == SortStrings(DOMAIN prefix) IN
         [lvs EXCEPT ![1].Level = prefix[sorted[Len(sorted)]]]
    ELSE lvs

\* setLevels, lines 269-271: the rule for "*" (kept as prefix "/") sets the default cell
setDefault(lvs, prefix) ==
    IF <<"/">> \in DOMAIN prefix
    THEN [lvs EXCEPT ![1].Level = prefix[<<"/">>]]
    ELSE lvs

\* setLevels without the reset of lines 272-275
resetLevelsSkipped(lvs) == lvs

\* setLevels, lines 272-275: every other cell is reset to the default level
resetLevels(lvs) ==
    [i \in 1..Len(lvs) |-> IF i = 1 THEN lvs[1] ELSE [lvs[i] EXCEPT !.Level = lvs[1].Level]]

\* setLevels scanning the sorted prefixes from the first one instead of the last
applyPrefixesAscending(lvs, prefix) ==
    LET sorted == SortStrings(DOMAIN prefix)
        prefixes == [i \in 1..Len(sorted) |-> sorted[Len(sorted) + 1 - i]]
    IN
    [i \in 1..Len(lvs) |->
        IF i = 1 THEN lvs[1]
        ELSE [lvs[i] EXCEPT !.Level =
                 scanPrefixes(lvs[i].Name, lvs[i].Level, prefixes, Len(prefixes), prefix)]]

\* setLevels, lines 276-293: the prefixes are sorted and scanned from the last one
applyPrefixes(lvs, prefix) ==
    LET prefixes == SortStrings(DOMAIN prefix) IN
    [i \in 1..Len(lvs) |->
        IF i = 1 THEN lvs[1]
        ELSE [lvs[i] EXCEPT !.Level =
                 scanPrefixes(lvs[i].Name, lvs[i].Level, prefixes, Len(prefixes), prefix)]]

\* setLevels, lines 294-298: an exact rule overrides
applyExact(lvs, exact) ==
    [i \in 1..Len(lvs) |->
        IF i > 1 /\ lvs[i].Name \in DOMAIN exact
        THEN [lvs[i] EXCEPT !.Level = exact[lvs[i].Name]]
        ELSE lvs[i]]

\* setLevels after a parseFlag that returned exact and prefix
applyLevels(lvs, exact, prefix) ==
    applyExact(applyPrefixes(resetLevels(setDefault(lvs, prefix)), prefix), exact)

-----------------------------------------------------------------------------
(* printLevelVars *)

\* Level.String() of the generated stringer, as the tests print it
LevelString(l) ==
    CASE l = v2 -> <<"v", "2">>
      [] l = v1 -> <<"v", "1">>
      [] l = info -> <<"i", "n", "f", "o">>
      [] l = err -> <<"e", "r", "r">>

RECURSIVE printCells(_, _)
printCells(lvs, i) ==
    IF i > Len(lvs) THEN <<>>
    ELSE <<",">> \o lvs[i].Name \o <<"=">> \o LevelString(lvs[i].Level)
         \o printCells(lvs, i + 1)

printLevelVars(lvs) ==
    <<"*", "=">> \o LevelString(lvs[1].Level) \o printCells(lvs, 2)


-----------------------------------------------------------------------------
(* The operations of the registry, as functions of the cells *)

\* setLevels applying the rules parsed before the panic
setLevelsPartial(lvs, value) ==
    LET pf == parseFlag(value) IN
    [lvs |-> applyLevels(lvs, pf.exact, pf.prefix), panicked |-> pf.panicked,
     logs |-> pf.logs]

\* setLevels(value): parseFlag panics before any cell is written
setLevels(lvs, value) ==
    LET pf == parseFlag(value) IN
    IF pf.panicked
    THEN [lvs |-> lvs, panicked |-> TRUE, logs |-> pf.logs]
    ELSE [lvs |-> applyLevels(lvs, pf.exact, pf.prefix), panicked |-> FALSE,
          logs |-> pf.logs]

\* newVar making the cell at the level of the default cell
newVarAtDefault(lvs, name) ==
    IF name = <<>>
    THEN [lvs |-> lvs, ret |-> 1, logs |-> <<"fail to infer name">>]
    ELSE IF \E i \in 1..Len(lvs) : lvs[i].Name = name
    THEN [lvs |-> lvs,
          ret |-> CHOOSE i \in 1..Len(lvs) :
                     lvs[i].Name = name /\ \A j \in 1..(i - 1) : lvs[j].Name # name,
          logs |-> <<"dup level name">>]
    ELSE [lvs |-> Append(lvs, [Name |-> name, Level |-> lvs[1].Level]),
          ret |-> Len(lvs) + 1, logs |-> <<>>]

\* newVar without the search for an existing cell of that name
newVarNoDupCheck(lvs, name) ==
    IF name = <<>>
    THEN [lvs |-> lvs, ret |-> 1, logs |-> <<"fail to infer name">>]
    ELSE [lvs |-> Append(lvs, [Name |-> name, Level |-> info]),
          ret |-> Len(lvs) + 1, logs |-> <<>>]

\* newVar(name, fn): ret is the cell the returned *Level points into
newVar(lvs, name) ==
    IF name = <<>>
    THEN [lvs |-> lvs, ret |-> 1, logs |-> <<"fail to infer name">>]
    ELSE IF \E i \in 1..Len(lvs) : lvs[i].Name = name
    THEN [lvs |-> lvs,
          ret |-> CHOOSE i \in 1..Len(lvs) :
                     lvs[i].Name = name /\ \A j \in 1..(i - 1) : lvs[j].Name # name,
          logs |-> <<"dup level name">>]
    ELSE [lvs |-> Append(lvs, [Name |-> name, Level |-> info]),
          ret |-> Len(lvs) + 1, logs |-> <<>>]

\* an int of a 64-bit build: hi * 2^32 + lo, lo the low 32 bits read as an int32
Int64(hi, lo) == [hi |-> hi, lo |-> lo]

\* Level(-l) for l an int: the conversion to int32 keeps the low 32 bits of -l
LevelOfNeg(l) == -l.lo

\* (v *Level).Vset(l) on cell h: ret is the returned Level
Vset(lvs, h, l) ==
    LET lv == LevelOfNeg(l) IN
    IF lv < v2 \/ lv >= info
    THEN [lvs |-> lvs, ret |-> lvs[h].Level, logs |-> <<"invalid verbose level">>]
    ELSE [lvs |-> [lvs EXCEPT ![h].Level = lv], ret |-> lvs[h].Level, logs |-> <<>>]

\* (v *Level).E, I, V1, V2: the lines handed to lg.Log by a call on a cell at level v
E(v) == IF v <= err THEN <<"E msg">> ELSE <<>>

I(v) == IF v <= info THEN <<"msg">> ELSE <<>>

\* V1 gated like I
V1AsInfo(v) == IF v <= info THEN <<"msg">> ELSE <<>>

V1(v) == IF v <= v1 THEN <<"msg">> ELSE <<>>

V2(v) == IF v <= v2 THEN <<"msg">> ELSE <<>>

-----------------------------------------------------------------------------
(* The inputs of the model *)

\* the names inferName hands to newVar; <<>> is a file it could not name
Names ==
    { <<>>, <<"a", "/", "b">>, <<"a", "/", "b", "/", "d">>, <<"a", "b">> }

\* the rules a configuration string is made of: k, and "=" v when eq
Rule(k, eq, v) == [k |-> k, eq |-> eq, v |-> v]

Rules ==
    { Rule(<<"*">>, TRUE, <<"e">>),
      Rule(<<"a", "/", "*">>, TRUE, <<"v", "1">>),
      Rule(<<"a", "/", "b", "/", "*">>, TRUE, <<"2">>),
      Rule(<<"a", "b", "/", "*">>, TRUE, <<"w">>),
      Rule(<<"A", "/", "b">>, TRUE, <<"I">>),
      Rule(<<"a", "b">>, FALSE, <<>>),
      Rule(<<"*", "a">>, TRUE, <<"i">>),
      Rule(<<"*", "/", "*">>, TRUE, <<"i">>) }

RuleSeqs == UNION { [1..n -> Rules] : n \in 0..MaxRules }

RuleText(r) == IF r.eq THEN r.k \o <<"=">> \o r.v ELSE r.k

\* the configuration string rule(,rule)*
RECURSIVE Join(_)
Join(rs) ==
    IF rs = <<>> THEN <<>>
    ELSE IF Len(rs) = 1 THEN RuleText(rs[1])
    ELSE RuleText(rs[1]) \o <<",">> \o Join(Tail(rs))

\* the number of rules in a configuration string of prefix rules
MaxPrefixRules == 4

\* names of packages next to and below one another; "-" sorts before "/"
PackageNames ==
    { <<"a">>, <<"a", "/", "b">>, <<"a", "/", "b", "/", "c">>, <<"a", "b">>,
      <<"a", "b", "/", "c">>, <<"a", "-">>, <<"a", "-", "/", "b">> }

\* the rule "*=v" and rules "p/*=v" for the prefixes p of those names; a prefix
\* and the prefixes it extends have different levels
PrefixRules ==
    { Rule(<<"*">>, TRUE, <<"e">>),
      Rule(<<"a", "/", "*">>, TRUE, <<"1">>),
      Rule(<<"a", "/", "b", "/", "*">>, TRUE, <<"2">>),
      Rule(<<"a", "b", "/", "*">>, TRUE, <<"e">>),
      Rule(<<"a", "-", "/", "*">>, TRUE, <<"2">>) }

PrefixRuleSeqs == UNION { [1..n -> PrefixRules] : n \in 0..MaxPrefixRules }

\* rules around the default cell: "*", the prefix rule of the empty path "/*",
\* the exact rule of the empty name, a prefix rule and an exact rule of a
\* package, and a rule without "="
RootRules ==
    { Rule(<<"*">>, TRUE, <<"e">>),
      Rule(<<"/", "*">>, TRUE, <<"2">>),
      Rule(<<>>, TRUE, <<"e">>),
      Rule(<<"a", "/", "*">>, TRUE, <<"e">>),
      Rule(<<"a", "/", "b">>, TRUE, <<"2">>),
      Rule(<<"a", "b">>, FALSE, <<>>) }

RootRuleSeqs == UNION { [1..n -> RootRules] : n \in 0..MaxRules }

\* the arguments of Vset: -1 .. 3, and 2^32 + 1
VsetArgs == {Int64(0, n) : n \in -1..3} \cup {Int64(1, 1)}

-----------------------------------------------------------------------------
(* The registry as a state machine: a call runs to completion, then returns *)

NoCall ==
    [op |-> "none", rules |-> <<>>, value |-> <<>>, exported |-> FALSE,
     name |-> <<>>, h |-> 0, n |-> 0, l |-> Int64(0, 0), ret |-> 0, panicked |-> FALSE, pre |-> <<>>]

Idle == call.op = "none"

\* no setLevels call is running beside other goroutines
NoPass ==
    [stage |-> "none", value |-> <<>>, pre |-> <<>>, exact |-> EmptyMap,
     prefix |-> EmptyMap, def |-> info, i |-> 0, wrote |-> <<>>]

NoRead == [h |-> 0, lv |-> info, during |-> FALSE, pre |-> info, fin |-> info]

\* the goroutines that call Vset beside each other
Setters == {"s1", "s2"}

NoVset == [pc |-> "idle", h |-> 0, lv |-> info, old |-> info, prev |-> info]

\* no setLevels call has run: no rules, and cells registered from now are new
NoConf == [exact |-> EmptyMap, prefix |-> EmptyMap, n |-> 1]

ConcInit ==
    /\ pass = NoPass
    /\ seen = NoRead
    /\ vset = [g \in Setters |-> NoVset]
    /\ lastConf = NoConf

RegInit ==
    /\ levelVars = << [Name |-> <<>>, Level |-> info] >>
    /\ call = NoCall
    /\ out = <<>>
    /\ firstSeen = <<>>
    /\ ConcInit

\* New() with a caller file that inferName names name
CallNew(name) ==
    LET r == newVar(levelVars, name) IN
    /\ Idle
    /\ UNCHANGED <<sinkVars, concVars, lastConf>>
    /\ Len(r.lvs) <= MaxCells + 1
    /\ levelVars' = r.lvs
    /\ out' = r.logs
    /\ call' = [NoCall EXCEPT !.op = "newVar", !.name = name, !.ret = r.ret,
                              !.pre = levelVars]
    /\ firstSeen' = IF name = <<>> \/ \E i \in 1..Len(firstSeen) : firstSeen[i] = name
                    THEN firstSeen
                    ELSE Append(firstSeen, name)

\* setLevels(value), value given as the rules rs joined by ","
SetLevelsOf(rs) ==
    LET value == Join(rs)
        r == setLevels(levelVars, value)
    IN
    /\ Idle
    /\ UNCHANGED <<sinkVars, concVars>>
    /\ levelVars' = r.lvs
    /\ out' = r.logs
    /\ call' = [NoCall EXCEPT !.op = "setLevels", !.rules = rs, !.value = value,
                              !.panicked = r.panicked, !.pre = levelVars]
    /\ UNCHANGED firstSeen

CallSetLevels(rs) == SetLevelsOf(rs) /\ UNCHANGED lastConf

\* setLevels(value), with the rules of a call that returns and the number of
\* cells it found kept as history
CallSetLevelsKept(rs) ==
    LET pf == parseFlag(Join(rs)) IN
    /\ SetLevelsOf(rs)
    /\ lastConf' = IF pf.panicked THEN lastConf
                   ELSE [exact |-> pf.exact, prefix |-> pf.prefix, n |-> Len(levelVars)]

\* setLevels(printLevelVars()): the printed setting fed back
CallSetLevelsPrinted ==
    LET value == printLevelVars(levelVars)
        r == setLevels(levelVars, value)
    IN
    /\ Idle
    /\ UNCHANGED <<sinkVars, concVars, lastConf>>
    /\ levelVars' = r.lvs
    /\ out' = r.logs
    /\ call' = [NoCall EXCEPT !.op = "setLevels", !.value = value, !.exported = TRUE,
                              !.panicked = r.panicked, !.pre = levelVars]
    /\ UNCHANGED firstSeen

CallVset(h, l) ==
    LET r == Vset(levelVars, h, l) IN
    /\ Idle
    /\ UNCHANGED <<sinkVars, concVars, lastConf>>
    /\ h \in 1..Len(levelVars)
    /\ levelVars' = r.lvs
    /\ out' = r.logs
    /\ call' = [NoCall EXCEPT !.op = "Vset", !.h = h, !.l = l, !.ret = r.ret,
                              !.pre = levelVars]
    /\ UNCHANGED firstSeen

\* an emit method on cell h; n records the severity of the method
CallEmit(h, op, sev, lines) ==
    /\ Idle
    /\ UNCHANGED <<sinkVars, concVars, lastConf>>
    /\ h \in 1..Len(levelVars)
    /\ out' = lines
    /\ call' = [NoCall EXCEPT !.op = op, !.h = h, !.n = sev, !.pre = levelVars]
    /\ UNCHANGED <<levelVars, firstSeen>>

CallE(h) == CallEmit(h, "emit", err, E(levelVars[h].Level))

CallI(h) == CallEmit(h, "emit", info, I(levelVars[h].Level))

CallV1(h) == CallEmit(h, "emit", v1, V1(levelVars[h].Level))

CallV2(h) == CallEmit(h, "emit", v2, V2(levelVars[h].Level))

\* the call returns to its caller
Return ==
    /\ ~Idle
    /\ UNCHANGED <<sinkVars, concVars, lastConf>>
    /\ call' = NoCall
    /\ out' = <<>>
    /\ UNCHANGED <<levelVars, firstSeen>>

Cells == 1..(MaxCells + 1)

RegNext ==
    \/ \E name \in Names : CallNew(name)
    \/ \E rs \in RuleSeqs : CallSetLevels(rs)
    \/ CallSetLevelsPrinted
    \/ \E h \in Cells, l \in VsetArgs : CallVset(h, l)
    \/ \E h \in Cells : CallE(h)
    \/ \E h \in Cells : CallI(h)
    \/ \E h \in Cells : CallV1(h)
    \/ \E h \in Cells : CallV2(h)
    \/ Return

\* New, Vset and setLevels with rules around the default cell
RootNext ==
    \/ \E name \in Names : CallNew(name)
    \/ \E rs \in RootRuleSeqs : CallSetLevels(rs)
    \/ \E h \in Cells, l \in VsetArgs : CallVset(h, l)
    \/ Return

-----------------------------------------------------------------------------
(* setLevels beside an emit method: the writes of setLevels one at a time.
   setLevels writes lv.Level and the emit methods read *v without
   synchronisation, so a read returns the level of the cell before the call or
   one that the call has written to it so far *)

\* the rules of a setLevels call that runs beside other goroutines
ConcRules ==
    { Rule(<<"*">>, TRUE, <<"e">>),
      Rule(<<"a", "/", "*">>, TRUE, <<"v", "1">>),
      Rule(<<"a", "/", "b">>, TRUE, <<"2">>) }

ConcRuleSeqs == UNION { [1..n -> ConcRules] : n \in 0..MaxRules }

\* the loops of setLevels go over levelVars[1:]: cell i done, the next one or the
\* next loop
PassStep(stage, next) ==
    IF pass.i < Len(levelVars)
    THEN [pass EXCEPT !.i = @ + 1]
    ELSE [pass EXCEPT !.stage = next, !.i = 2]

PassWrite(p, i, lv) == [p EXCEPT !.wrote[i] = @ \cup {lv}]

\* setLevels(value) is called and parseFlag returns
PassBegin(rs) ==
    LET pf == parseFlag(Join(rs)) IN
    /\ Idle
    /\ pass.stage = "none"
    /\ seen = NoRead
    /\ ~pf.panicked
    /\ pass' = [stage |-> "default", value |-> Join(rs), pre |-> levelVars,
                exact |-> pf.exact, prefix |-> pf.prefix, def |-> info, i |-> 2,
                wrote |-> [i \in 1..Len(levelVars) |-> {}]]
    /\ UNCHANGED <<levelVars, call, out, firstSeen, seen, vset>>
    /\ UNCHANGED <<sinkVars, lastConf>>

\* lines 269-271: the default cell, and def := levelVars[0].Level
PassDefault ==
    LET lvs == setDefault(levelVars, pass.prefix) IN
    /\ pass.stage = "default"
    /\ seen = NoRead
    /\ levelVars' = lvs
    /\ pass' = [(IF <<"/">> \in DOMAIN pass.prefix
                 THEN PassWrite(pass, 1, lvs[1].Level) ELSE pass)
                EXCEPT !.def = lvs[1].Level, !.stage = "reset", !.i = 2]
    /\ UNCHANGED <<call, out, firstSeen, seen, vset>>
    /\ UNCHANGED <<sinkVars, lastConf>>

\* the reset loop writing info instead of def
PassResetToInfo ==
    /\ pass.stage = "reset"
    /\ seen = NoRead
    /\ levelVars' = [levelVars EXCEPT ![pass.i].Level = info]
    /\ pass' = PassWrite(PassStep("reset", "prefix"), pass.i, info)
    /\ UNCHANGED <<call, out, firstSeen, seen, vset>>
    /\ UNCHANGED <<sinkVars, lastConf>>

\* lines 272-275, one turn of the loop: lv.Level = def
PassReset ==
    /\ pass.stage = "reset"
    /\ seen = NoRead
    /\ levelVars' = [levelVars EXCEPT ![pass.i].Level = pass.def]
    /\ pass' = PassWrite(PassStep("reset", "prefix"), pass.i, pass.def)
    /\ UNCHANGED <<call, out, firstSeen, seen, vset>>
    /\ UNCHANGED <<sinkVars, lastConf>>

\* lines 284-292, one turn of the outer loop: the first matching prefix from the
\* end of the sorted ones, if any
PassPrefix ==
    LET name == levelVars[pass.i].Name
        matched == \E k \in DOMAIN pass.prefix :
                       name = SubSeq(k, 1, Len(k) - 1) \/ HasPrefix(name, k)
        prefixes == SortStrings(DOMAIN pass.prefix)
        lv == scanPrefixes(name, levelVars[pass.i].Level, prefixes, Len(prefixes),
                           pass.prefix)
    IN
    /\ pass.stage = "prefix"
    /\ seen = NoRead
    /\ levelVars' = [levelVars EXCEPT ![pass.i].Level = lv]
    /\ pass' = IF matched THEN PassWrite(PassStep("prefix", "exact"), pass.i, lv)
               ELSE PassStep("prefix", "exact")
    /\ UNCHANGED <<call, out, firstSeen, seen, vset>>
    /\ UNCHANGED <<sinkVars, lastConf>>

\* lines 294-298, one turn of the loop: the exact rule of the cell, if any
PassExact ==
    LET name == levelVars[pass.i].Name
        matched == name \in DOMAIN pass.exact
        nxt == PassStep("exact", "return")
    IN
    /\ pass.stage = "exact"
    /\ seen = NoRead
    /\ levelVars' = IF matched
                    THEN [levelVars EXCEPT ![pass.i].Level = pass.exact[name]]
                    ELSE levelVars
    /\ pass' = IF matched THEN PassWrite(nxt, pass.i, pass.exact[name]) ELSE nxt
    /\ UNCHANGED <<call, out, firstSeen, seen, vset>>
    /\ UNCHANGED <<sinkVars, lastConf>>

\* setLevels returns
PassReturn ==
    /\ pass.stage = "return"
    /\ seen = NoRead
    /\ pass' = NoPass
    /\ UNCHANGED <<levelVars, call, out, firstSeen, seen, vset>>
    /\ UNCHANGED <<sinkVars, lastConf>>

\* the levels a read of cell h may return
Readable(h) ==
    IF pass.stage = "none" THEN {levelVars[h].Level}
    ELSE {pass.pre[h].Level} \cup pass.wrote[h]

\* an emit method on cell h evaluates *v: `if *v <= info`; pre and fin are the
\* level of the cell before the running setLevels and the one it resolves
EmitRead(h) ==
    /\ Idle
    /\ seen = NoRead
    /\ h \in 1..Len(levelVars)
    /\ \E lv \in Readable(h) :
          seen' = IF pass.stage = "none"
                  THEN [h |-> h, lv |-> lv, during |-> FALSE, pre |-> lv, fin |-> lv]
                  ELSE [h |-> h, lv |-> lv, during |-> TRUE,
                        pre |-> pass.pre[h].Level,
                        fin |-> applyLevels(pass.pre, pass.exact, pass.prefix)[h].Level]
    /\ UNCHANGED <<levelVars, call, out, firstSeen, pass, vset>>
    /\ UNCHANGED <<sinkVars, lastConf>>

\* the emit method returns
EmitReturn ==
    /\ seen # NoRead
    /\ seen' = NoRead
    /\ UNCHANGED <<levelVars, call, out, firstSeen, pass, vset>>
    /\ UNCHANGED <<sinkVars, lastConf>>

PassNext ==
    \/ \E rs \in ConcRuleSeqs : PassBegin(rs)
    \/ PassDefault
    \/ PassReset
    \/ PassPrefix
    \/ PassExact
    \/ PassReturn
    \/ \E h \in Cells : EmitRead(h)
    \/ EmitReturn

-----------------------------------------------------------------------------
(* Vset beside Vset: the statements of Vset one at a time *)

\* Vset(l) is called on cell h with l in range: lv := Level(-l) passes the test
VsetCall(g, h, l) ==
    LET lv == LevelOfNeg(l) IN
    /\ Idle
    /\ vset[g].pc = "idle"
    /\ h \in 1..Len(levelVars)
    /\ ~(lv < v2 \/ lv >= info)
    /\ vset' = [vset EXCEPT ![g] = [NoVset EXCEPT !.pc = "read", !.h = h, !.lv = lv]]
    /\ UNCHANGED <<levelVars, call, out, firstSeen, pass, seen, lastConf>>
    /\ UNCHANGED sinkVars

\* old := *v
VsetRead(g) ==
    /\ vset[g].pc = "read"
    /\ vset' = [vset EXCEPT ![g].old = levelVars[vset[g].h].Level, ![g].pc = "store"]
    /\ UNCHANGED <<levelVars, call, out, firstSeen, pass, seen, lastConf>>
    /\ UNCHANGED sinkVars

\* atomic.StoreInt32((*int32)(v), int32(lv)); prev is the level the store replaces
VsetStore(g) ==
    /\ vset[g].pc = "store"
    /\ levelVars' = [levelVars EXCEPT ![vset[g].h].Level = vset[g].lv]
    /\ vset' = [vset EXCEPT ![g].prev = levelVars[vset[g].h].Level, ![g].pc = "return"]
    /\ UNCHANGED <<call, out, firstSeen, pass, seen, lastConf>>
    /\ UNCHANGED sinkVars

\* return old
VsetReturn(g) ==
    /\ vset[g].pc = "return"
    /\ vset' = [vset EXCEPT ![g] = NoVset]
    /\ UNCHANGED <<levelVars, call, out, firstSeen, pass, seen, lastConf>>
    /\ UNCHANGED sinkVars

VsetNext ==
    \/ \E g \in Setters, h \in Cells, l \in VsetArgs : VsetCall(g, h, l)
    \/ \E g \in Setters : VsetRead(g)
    \/ \E g \in Setters : VsetStore(g)
    \/ \E g \in Setters : VsetReturn(g)

-----------------------------------------------------------------------------
(* rotate_log.go *)

\* var logPrefixSize = 50
logPrefixSize == 50

\* logLimit as TestRotateLogger sets it
logLimit == 180

\* the number of Log calls of a run
MaxLogs == 4

\* len(s) of the lines one goroutine gives to Log: "a", "bc", "def" and the 128
\* bytes of TestRotateLogger, a line that fills a file exactly after "def", and a
\* line that is over logLimit by itself
LineLens == {1, 2, 3, 77, 128, 131}

\* len(s) of the lines concurrent goroutines give to Log
ShortAndLongLens == {1, 128, 131}

\* the goroutines that call Log and Flush, and the one running flushloop
Loggers == {"g1", "g2"}

OneLogger == {"g1"}

Flushloop == "flushloop"

Goroutines == Loggers \cup {Flushloop}

NoOne == "none"

NoLine == [id |-> 0, len |-> 0, nb0 |-> 0, rotated |-> 0]

\* a line reaches the writer as a head and a tail: bufio may flush between them
Frags(id) == << [id |-> id, part |-> "head"], [id |-> id, part |-> "tail"] >>

ActiveFile == files[Len(files)]

\* Log, lines 41-43: whether a line of n bytes rotates a file that holds nb bytes
mustRotateAtLimit(nb, n) == nb > 0 /\ nb + logPrefixSize + n >= logLimit

\* the limit tested on rl.nbytes as it was before line 42 added the line
mustRotateBeforeAdd(nb, n) == nb > logLimit

\* the test of line 43 without checklimit
mustRotateUnchecked(nb, n) == nb + logPrefixSize + n > logLimit

mustRotate(nb, n) == nb > 0 /\ nb + logPrefixSize + n > logLimit

\* wr.Flush() putting the buffer before what the file holds
flushIntoFront(fs, b) ==
    [fs EXCEPT ![Len(fs)].disk = b \o fs[Len(fs)].disk]

\* wr.Flush(): the buffer goes to the file
flushInto(fs, b) ==
    [fs EXCEPT ![Len(fs)].disk = fs[Len(fs)].disk \o b]

\* rotate() closing the file without flushing its writer
closeFileUnflushed(fs, b) ==
    IF fs = <<>> THEN fs ELSE [fs EXCEPT ![Len(fs)].open = FALSE]

\* rotate() up to os.Create: if rl.f != nil, wr.Flush() and f.Close()
closeFile(fs, b) ==
    IF fs = <<>> THEN fs ELSE [flushInto(fs, b) EXCEPT ![Len(fs)].open = FALSE]

\* rotate() without rl.nextID++
rotateSameID(fs, b, id) ==
    [files |-> Append(closeFile(fs, b), [id |-> id, disk |-> <<>>, open |-> TRUE]),
     buf |-> <<>>, nbytes |-> 0, nextID |-> id]

\* rotate() with a successful os.Create: the new file, its empty writer, nbytes, nextID
rotate(fs, b, id) ==
    [files |-> Append(closeFile(fs, b), [id |-> id, disk |-> <<>>, open |-> TRUE]),
     buf |-> <<>>, nbytes |-> 0, nextID |-> id + 1]

\* the rotateLogger of newRotateLogger, lines 24-26, before its rl.rotate():
\* no file, nextID 0
SinkInit ==
    /\ mu = NoOne
    /\ files = <<>>
    /\ buf = <<>>
    /\ nbytes = 0
    /\ nextID = 0
    /\ pc = [g \in Goroutines |-> "idle"]
    /\ arg = [g \in Loggers |-> NoLine]
    /\ crashed = FALSE
    /\ lens = <<>>
    /\ written = <<>>
    /\ locked = <<>>
    /\ rotations = 0
    /\ synced = TRUE

\* newRotateLogger has returned the rotateLogger
Constructed == files # <<>>

\* newRotateLogger, lines 27-29: rl.rotate() makes the first file, flushloop is
\* started and rl is returned
newRotateLogger ==
    LET r == rotate(files, buf, nextID) IN
    /\ ~crashed
    /\ ~Constructed
    /\ files' = r.files
    /\ buf' = r.buf
    /\ nbytes' = r.nbytes
    /\ nextID' = r.nextID
    /\ UNCHANGED <<mu, pc, arg, crashed, lens, written, locked, rotations, synced>>
    /\ UNCHANGED regVars

\* newRotateLogger where os.Create fails: rotate() panics and nothing is returned
newRotateLoggerPanics ==
    /\ ~crashed
    /\ ~Constructed
    /\ crashed' = TRUE
    /\ UNCHANGED <<mu, files, buf, nbytes, nextID, pc, arg, lens, written, locked, rotations,
                   synced>>
    /\ UNCHANGED regVars

\* Log(s) is called with len(s) = n
LogCall(g, n) ==
    /\ ~crashed
    /\ Constructed
    /\ pc[g] = "idle"
    /\ Len(lens) < MaxLogs
    /\ lens' = Append(lens, n)
    /\ arg' = [arg EXCEPT ![g] = [NoLine EXCEPT !.id = Len(lens) + 1, !.len = n]]
    /\ pc' = [pc EXCEPT ![g] = "Log:lock"]
    /\ UNCHANGED <<mu, files, buf, nbytes, nextID, crashed, written, locked, rotations, synced>>
    /\ UNCHANGED regVars

\* rl.mu.Lock()
LogLock(g) ==
    /\ ~crashed
    /\ pc[g] = "Log:lock"
    /\ mu = NoOne
    /\ mu' = g
    /\ arg' = [arg EXCEPT ![g].nb0 = nbytes]
    /\ locked' = Append(locked, [id |-> arg[g].id, g |-> g])
    /\ pc' = [pc EXCEPT ![g] = "Log:loop"]
    /\ UNCHANGED <<files, buf, nbytes, nextID, crashed, lens, written, rotations, synced>>
    /\ UNCHANGED regVars

\* lines 41-46: checklimit, the addition, and the decision to rotate
LogLoop(g) ==
    /\ ~crashed
    /\ pc[g] = "Log:loop"
    /\ nbytes' = nbytes + logPrefixSize + arg[g].len
    /\ pc' = [pc EXCEPT ![g] = IF mustRotate(nbytes, arg[g].len) THEN "Log:rotate"
                                ELSE "Log:output"]
    /\ UNCHANGED <<mu, files, buf, nextID, arg, crashed, lens, written, locked, rotations, synced>>
    /\ UNCHANGED regVars

\* rl.rotate(); continue
LogRotate(g) ==
    LET r == rotate(files, buf, nextID) IN
    /\ ~crashed
    /\ pc[g] = "Log:rotate"
    /\ files' = r.files
    /\ buf' = r.buf
    /\ nbytes' = r.nbytes
    /\ nextID' = r.nextID
    /\ arg' = [arg EXCEPT ![g].rotated = @ + 1]
    /\ rotations' = rotations + 1
    /\ pc' = [pc EXCEPT ![g] = "Log:loop"]
    /\ UNCHANGED <<mu, crashed, lens, written, locked, synced>>
    /\ UNCHANGED regVars

\* rotate() going on after a failed os.Create, the line sent to the old writer
LogRotateFailsQuietly(g) ==
    /\ ~crashed
    /\ pc[g] = "Log:rotate"
    /\ files' = closeFile(files, buf)
    /\ buf' = <<>>
    /\ pc' = [pc EXCEPT ![g] = "Log:output"]
    /\ UNCHANGED <<mu, nbytes, nextID, arg, crashed, lens, written, locked, rotations, synced>>
    /\ UNCHANGED regVars

\* rl.rotate() where os.Create fails: the panic ends the process with mu held
LogRotatePanics(g) ==
    /\ ~crashed
    /\ pc[g] = "Log:rotate"
    /\ files' = closeFile(files, buf)
    /\ buf' = <<>>
    /\ crashed' = TRUE
    /\ pc' = [pc EXCEPT ![g] = "panic"]
    /\ UNCHANGED <<mu, nbytes, nextID, arg, lens, written, locked, rotations, synced>>
    /\ UNCHANGED regVars

\* rl.lg.Output(3, s): one Write of the line to rl.wr, which keeps it, or fills up
\* and flushes part of it, or passes all of it on
LogOutput(g) ==
    LET line == Frags(arg[g].id) IN
    /\ ~crashed
    /\ pc[g] = "Log:output"
    /\ \/ /\ buf' = buf \o line
          /\ files' = files
       \/ /\ buf # <<>>
          /\ files' = flushInto(files, buf \o <<line[1]>>)
          /\ buf' = <<line[2]>>
       \/ /\ files' = flushInto(files, buf \o line)
          /\ buf' = <<>>
    /\ written' = Append(written, arg[g].id)
    /\ UNCHANGED locked
    /\ synced' = FALSE
    /\ pc' = [pc EXCEPT ![g] = "Log:unlock"]
    /\ UNCHANGED <<mu, nbytes, nextID, arg, crashed, lens, rotations>>
    /\ UNCHANGED regVars

\* rl.mu.Unlock(), and Log returns
LogUnlock(g) ==
    /\ ~crashed
    /\ pc[g] = "Log:unlock"
    /\ mu' = NoOne
    /\ arg' = [arg EXCEPT ![g] = NoLine]
    /\ pc' = [pc EXCEPT ![g] = "idle"]
    /\ UNCHANGED <<files, buf, nbytes, nextID, crashed, lens, written, locked, rotations, synced>>
    /\ UNCHANGED regVars

\* Flush() is called, by a goroutine of the program or by flushloop on a tick, and
\* takes rl.mu
FlushLock(g) ==
    /\ ~crashed
    /\ Constructed
    /\ pc[g] = "idle"
    /\ mu = NoOne
    /\ mu' = g
    /\ pc' = [pc EXCEPT ![g] = "Flush:flush"]
    /\ UNCHANGED <<files, buf, nbytes, nextID, arg, crashed, lens, written, locked, rotations,
                   synced>>
    /\ UNCHANGED regVars

\* Flush() that also rotates: rl.rotate() in the place of rl.wr.Flush()
FlushWriterRotates(g) ==
    LET r == rotate(files, buf, nextID) IN
    /\ ~crashed
    /\ pc[g] = "Flush:flush"
    /\ files' = r.files
    /\ buf' = r.buf
    /\ nbytes' = r.nbytes
    /\ nextID' = r.nextID
    /\ synced' = TRUE
    /\ pc' = [pc EXCEPT ![g] = "Flush:unlock"]
    /\ UNCHANGED <<mu, arg, crashed, lens, written, locked, rotations>>
    /\ UNCHANGED regVars

\* rl.wr.Flush() that leaves the buffered bytes in the writer
FlushWriterKeeps(g) ==
    /\ ~crashed
    /\ pc[g] = "Flush:flush"
    /\ synced' = TRUE
    /\ pc' = [pc EXCEPT ![g] = "Flush:unlock"]
    /\ UNCHANGED <<mu, files, buf, nbytes, nextID, arg, crashed, lens, written, locked,
                   rotations>>
    /\ UNCHANGED regVars

\* rl.wr.Flush()
FlushWriter(g) ==
    /\ ~crashed
    /\ pc[g] = "Flush:flush"
    /\ files' = flushInto(files, buf)
    /\ buf' = <<>>
    /\ synced' = TRUE
    /\ pc' = [pc EXCEPT ![g] = "Flush:unlock"]
    /\ UNCHANGED <<mu, nbytes, nextID, arg, crashed, lens, written, locked, rotations>>
    /\ UNCHANGED regVars

FlushUnlock(g) ==
    /\ ~crashed
    /\ pc[g] = "Flush:unlock"
    /\ mu' = NoOne
    /\ pc' = [pc EXCEPT ![g] = "idle"]
    /\ UNCHANGED <<files, buf, nbytes, nextID, arg, crashed, lens, written, locked, rotations,
                   synced>>
    /\ UNCHANGED regVars

\* Flush() is called while rl.mu may be held: the caller waits in rl.mu.Lock()
FlushCall(g) ==
    /\ ~crashed
    /\ Constructed
    /\ pc[g] = "idle"
    /\ pc' = [pc EXCEPT ![g] = "Flush:lock"]
    /\ UNCHANGED <<mu, files, buf, nbytes, nextID, arg, crashed, lens, written, locked,
                   rotations, synced>>
    /\ UNCHANGED regVars

\* rl.mu.Lock() of that Flush call returns
FlushAcquire(g) ==
    /\ ~crashed
    /\ pc[g] = "Flush:lock"
    /\ mu = NoOne
    /\ mu' = g
    /\ pc' = [pc EXCEPT ![g] = "Flush:flush"]
    /\ UNCHANGED <<files, buf, nbytes, nextID, arg, crashed, lens, written, locked,
                   rotations, synced>>
    /\ UNCHANGED regVars

\* the steps of the goroutines L calling Log with lines of the lengths N and
\* Flush, and of flushloop
SinkSteps(L, N) ==
    \/ newRotateLogger
    \/ newRotateLoggerPanics
    \/ \E g \in L, n \in N : LogCall(g, n)
    \/ \E g \in L : LogLock(g)
    \/ \E g \in L : LogLoop(g)
    \/ \E g \in L : LogRotate(g)
    \/ \E g \in L : LogRotatePanics(g)
    \/ \E g \in L : LogOutput(g)
    \/ \E g \in L : LogUnlock(g)
    \/ \E g \in L \cup {Flushloop} : FlushLock(g)
    \/ \E g \in L \cup {Flushloop} : FlushWriter(g)
    \/ \E g \in L \cup {Flushloop} : FlushUnlock(g)

\* TestRotateLoggerN: goroutines logging concurrently
SinkNext == SinkSteps(Loggers, ShortAndLongLens)

\* TestRotateLogger: one goroutine logging lines of many lengths
SinkSeqNext == SinkSteps(OneLogger, LineLens)

\* len(s) of a line over logLimit by itself: the first one goes to the empty
\* file, each later one makes the file rotate
LongLens == {131}

\* goroutines logging long lines and flushing, a Flush call with its wait for rl.mu
SinkFairNext ==
    \/ SinkSteps(Loggers, LongLens)
    \/ \E g \in Goroutines : FlushCall(g)
    \/ \E g \in Goroutines : FlushAcquire(g)

-----------------------------------------------------------------------------
(* Specifications *)

vars == <<regVars, sinkVars>>

Init == RegInit /\ SinkInit

\* the registry, logging to stderr
Spec == Init /\ [][RegNext]_vars

\* one package has called New()
PrefixInit ==
    /\ \E name \in PackageNames :
          /\ levelVars = newVar(<< [Name |-> <<>>, Level |-> info] >>, name).lvs
          /\ firstSeen = <<name>>
    /\ call = NoCall
    /\ out = <<>>
    /\ ConcInit
    /\ SinkInit

PrefixNext ==
    \/ \E rs \in PrefixRuleSeqs : CallSetLevels(rs)
    \/ Return

\* setLevels with prefix rules on a registry of one package
PrefixSpec == PrefixInit /\ [][PrefixNext]_vars

\* two packages have called New()
PassInit ==
    /\ levelVars = newVar(newVar(<< [Name |-> <<>>, Level |-> info] >>,
                                 <<"a", "/", "b">>).lvs, <<"a", "b">>).lvs
    /\ firstSeen = << <<"a", "/", "b">>, <<"a", "b">> >>
    /\ call = NoCall
    /\ out = <<>>
    /\ ConcInit
    /\ SinkInit

\* packages calling New() before and after setLevels
LateNext ==
    \/ \E name \in Names : CallNew(name)
    \/ \E rs \in ConcRuleSeqs : CallSetLevelsKept(rs)
    \/ Return

LateSpec == Init /\ [][LateNext]_vars

\* goroutines calling Vset on the cells of two packages
VsetSpec == PassInit /\ [][VsetNext]_vars

\* setLevels running beside the emit methods
PassSpec == PassInit /\ [][PassNext]_vars

\* the registry under rules around the default cell
RootSpec == Init /\ [][RootNext]_vars

\* the rotating logger under concurrent callers
SinkSpec == Init /\ [][SinkNext]_vars

\* the rotating logger under one caller and flushloop
SinkSeqSpec == Init /\ [][SinkSeqNext]_vars

\* a goroutine that can run does run; sync.Mutex hands rl.mu to a goroutine that
\* waits for it; os.Create returns or fails; time.Tick keeps ticking
SinkFairness ==
    /\ WF_vars(newRotateLogger \/ newRotateLoggerPanics)
    /\ \A g \in Loggers :
          /\ SF_vars(LogLock(g))
          /\ WF_vars(LogLoop(g))
          /\ WF_vars(LogRotate(g) \/ LogRotatePanics(g))
          /\ WF_vars(LogOutput(g))
          /\ WF_vars(LogUnlock(g))
    /\ \A g \in Goroutines :
          /\ SF_vars(FlushAcquire(g))
          /\ WF_vars(FlushWriter(g))
          /\ WF_vars(FlushUnlock(g))
    /\ SF_vars(FlushLock(Flushloop) \/ FlushCall(Flushloop))

\* the rotating logger under concurrent callers and a fair scheduler
SinkFairSpec == Init /\ [][SinkFairNext]_vars /\ SinkFairness

-----------------------------------------------------------------------------
(* Properties of the registry *)

Configured == call.op = "setLevels" /\ ~call.panicked

NamesOf(lvs) == [i \in 1..Len(lvs) |-> lvs[i].Name]

\* the prefix k matches name at a path boundary
MatchesAtBoundary(k, name) == name \o <<"/">> = k \/ HasPrefix(name, k)

\* the level the rules exact and prefix give name when the default level is def
ResolvedLevel(name, exact, prefix, def) ==
    LET M == {k \in DOMAIN prefix : MatchesAtBoundary(k, name)} IN
    IF name \in DOMAIN exact THEN exact[name]
    ELSE IF M = {} THEN def
    ELSE prefix[CHOOSE k \in M : \A k2 \in M \ {k} : StrLess(k2, k)]

\* C1: after setLevels returns, the default cell has the level of the "*" rule if
\* there is one and its earlier level otherwise, and every other cell has the level
\* of the exact rule for its name, else of the greatest matching prefix in byte
\* order, else of the default cell; the cells and their names are as before, and
\* the level a cell had before does not enter
C1_Precedence ==
    Configured =>
        LET pf  == parseFlag(call.value)
            def == IF <<"/">> \in DOMAIN pf.prefix THEN pf.prefix[<<"/">>]
                   ELSE call.pre[1].Level
        IN  /\ NamesOf(levelVars) = NamesOf(call.pre)
            /\ levelVars[1].Level = def
            /\ \A i \in 2..Len(levelVars) :
                  levelVars[i].Level =
                      ResolvedLevel(levelVars[i].Name, pf.exact, pf.prefix, def)

\* an exact rule for a/b, and a/b/d, which no rule matches, takes the default
\* level, whatever it held before
C1_Witness ==
    /\ Configured
    /\ \E i, j \in 2..Len(levelVars) :
          /\ levelVars[i].Name = <<"a", "/", "b">>
          /\ levelVars[j].Name = <<"a", "/", "b", "/", "d">>
          /\ levelVars[i].Name \in DOMAIN parseFlag(call.value).exact
          /\ levelVars[j].Level = levelVars[1].Level
          /\ levelVars[j].Level # levelVars[i].Level
          /\ call.pre[j].Level # levelVars[j].Level

\* C2 as stated: setLevels("") changes no cell
C2_EmptyIsNoOp ==
    (call.op = "setLevels" /\ call.value = <<>>) => levelVars = call.pre

\* C2 amended: setLevels("") returns normally, logs nothing, keeps the default
\* cell's level and gives that level to every other cell; it changes nothing
\* exactly when every cell already held the default cell's level
C2_EmptyResetsToDefault ==
    (call.op = "setLevels" /\ call.value = <<>>) =>
        /\ ~call.panicked
        /\ out = <<>>
        /\ NamesOf(levelVars) = NamesOf(call.pre)
        /\ \A i \in 1..Len(levelVars) : levelVars[i].Level = call.pre[1].Level
        /\ (levelVars = call.pre) <=>
              (\A i \in 1..Len(call.pre) : call.pre[i].Level = call.pre[1].Level)

\* setLevels("") on a registry where a cell held another level than the default
C2_Witness ==
    /\ call.op = "setLevels"
    /\ call.value = <<>>
    /\ \E i \in 2..Len(call.pre) : call.pre[i].Level # call.pre[1].Level

\* C6: setLevels(printLevelVars()) returns normally, logs nothing and leaves every
\* cell, the default cell included, at the level it had
C6_RoundTrip ==
    (call.op = "setLevels" /\ call.exported) =>
        /\ ~call.panicked
        /\ out = <<>>
        /\ levelVars = call.pre

\* a round trip over two cells that differ from each other and from the default,
\* one of them at err
C6_Witness ==
    /\ call.op = "setLevels"
    /\ call.exported
    /\ Len(call.pre) = 3
    /\ call.pre[2].Level = err
    /\ call.pre[3].Level = v2
    /\ call.pre[1].Level = v1

\* C7: the names of the cells are pairwise distinct, the first cell is the default
\* cell "", the others follow in the order in which their names were first given
\* to New; New with a name that has a cell adds none and returns that cell
C7_Registration ==
    /\ \A i, j \in 1..Len(levelVars) :
          levelVars[i].Name = levelVars[j].Name => i = j
    /\ levelVars[1].Name = <<>>
    /\ NamesOf(levelVars) = <<<<>>>> \o firstSeen
    /\ (call.op = "newVar" /\ \E i \in 1..Len(call.pre) : call.pre[i].Name = call.name)
          => /\ levelVars = call.pre
             /\ call.ret \in 1..Len(levelVars)
             /\ levelVars[call.ret].Name = call.name

\* New for a name registered before, whose cell was set to v1 since: the call
\* returns that cell
C7_Witness ==
    /\ call.op = "newVar"
    /\ call.name # <<>>
    /\ Len(levelVars) = 3
    /\ call.ret = 2
    /\ levelVars = call.pre
    /\ levelVars[2].Level = v1

\* C8: an emit method of severity s on a cell hands exactly one line to lg.Log when
\* the cell's level is <= s and none otherwise, and changes no cell; so E always
\* logs, and a cell at err logs for E only
C8_EmitGate ==
    call.op = "emit" =>
        /\ levelVars = call.pre
        /\ call.n \in Levels
        /\ IF levelVars[call.h].Level <= call.n THEN Len(out) = 1 ELSE out = <<>>
        /\ call.n = err => Len(out) = 1
        /\ (levelVars[call.h].Level = err /\ call.n # err) => out = <<>>

\* V1 on a cell at v1 logs a line
C8_Witness ==
    /\ call.op = "emit"
    /\ call.h > 1
    /\ call.n = v1
    /\ levelVars[call.h].Level = v1
    /\ Len(out) = 1

\* a rule with no "=", or whose name has a "*" that is neither the whole name nor
\* its trailing "/*", or more than one "*"
Stars(k) == Cardinality({i \in 1..Len(k) : k[i] = "*"})

Malformed(r) ==
    \/ ~r.eq
    \/ Stars(r.k) > 1
    \/ Stars(r.k) = 1 /\ r.k # <<"*">> /\ ~HasSuffix(r.k, <<"/", "*">>)

\* the level tokens of the configuration grammar
LevelTokens ==
    { <<"2">>, <<"v", "2">>, <<"1">>, <<"v", "1">>, <<"i">>, <<"i", "n", "f", "o">>,
      <<"e">>, <<"e", "r", "r">> }

UnknownToken(r) == r.eq /\ ToLower(r.v) \notin LevelTokens

WithInfo(rs) ==
    [i \in 1..Len(rs) |->
        IF UnknownToken(rs[i]) THEN [rs[i] EXCEPT !.v = <<"i", "n", "f", "o">>]
        ELSE rs[i]]

C11_VsetRange ==
    call.op = "Vset" =>
        /\ call.ret = call.pre[call.h].Level
        /\ Len(levelVars) = Len(call.pre)
        /\ \A i \in 1..Len(levelVars) : i # call.h => levelVars[i] = call.pre[i]
        /\ levelVars[call.h].Name = call.pre[call.h].Name
        /\ IF call.l \in {Int64(0, 1), Int64(0, 2)}
           THEN /\ levelVars[call.h].Level = (IF call.l = Int64(0, 1) THEN v1 ELSE v2)
                /\ out = <<>>
           ELSE /\ levelVars[call.h].Level = call.pre[call.h].Level
                /\ out = <<"invalid verbose level">>

\* C11 for the arguments that fit in an int32: what C11_VsetRange says holds for
\* every Vset(n) whose n has no bits above the low 32
C11_VsetRangeInt32 ==
    (call.op = "Vset" /\ call.l.hi = 0) =>
        /\ call.ret = call.pre[call.h].Level
        /\ \A i \in 1..Len(levelVars) : i # call.h => levelVars[i] = call.pre[i]
        /\ IF call.l.lo \in {1, 2}
           THEN levelVars[call.h].Level = -call.l.lo /\ out = <<>>
           ELSE levelVars = call.pre /\ out = <<"invalid verbose level">>

\* Vset(2^32 + 1) on a cell at err: accepted, nothing logged, the cell is at v1
C11_Witness ==
    /\ call.op = "Vset"
    /\ call.l = Int64(1, 1)
    /\ call.h > 1
    /\ call.pre[call.h].Level = err
    /\ call.ret = err
    /\ levelVars[call.h].Level = v1
    /\ out = <<>>

\* the level of the longest prefix rule that matches name at a path boundary, the
\* exact rule and the default as in ResolvedLevel
LongestMatchLevel(name, exact, prefix, def) ==
    LET M == {k \in DOMAIN prefix : MatchesAtBoundary(k, name)} IN
    IF name \in DOMAIN exact THEN exact[name]
    ELSE IF M = {} THEN def
    ELSE prefix[CHOOSE k \in M : \A k2 \in M : Len(k2) <= Len(k)]

\* C13: after setLevels every other cell has the level of the longest prefix rule
\* that matches its name at a path boundary (unless an exact rule names it, and
\* the default when no prefix matches): the scan of the sorted prefixes from the
\* last one picks that rule
C13_LongestMatchWins ==
    Configured =>
        LET pf == parseFlag(call.value) IN
        \A i \in 2..Len(levelVars) :
            /\ \A k1, k2 \in {k \in DOMAIN pf.prefix : MatchesAtBoundary(k, levelVars[i].Name)} :
                   Len(k1) = Len(k2) => k1 = k2
            /\ levelVars[i].Level =
                   LongestMatchLevel(levelVars[i].Name, pf.exact, pf.prefix, levelVars[1].Level)

\* a/b under "a/*", "a/b/*" and the sibling "ab/*", which sorts last: a/b has the
\* level of "a/b/*"
C13_Witness ==
    /\ Configured
    /\ levelVars[2].Name = <<"a", "/", "b">>
    /\ LET pf == parseFlag(call.value) IN
          /\ DOMAIN pf.prefix = { <<"a", "/">>, <<"a", "/", "b", "/">>, <<"a", "b", "/">> }
          /\ pf.prefix[<<"a", "/">>] = v1
          /\ pf.prefix[<<"a", "b", "/">>] = err
          /\ pf.prefix[<<"a", "/", "b", "/">>] = v2
    /\ levelVars[2].Level = v2

\* C14 as stated: an emit method that reads its cell while setLevels runs reads
\* the level the cell had before the call or the one the call resolves for it
C14_NoIntermediateLevel ==
    seen.during => seen.lv \in {seen.pre, seen.fin}

\* the levels setLevels writes to cell h on its way: the default level of the
\* reset loop and the level after the prefix loop
PassLevels(h) ==
    LET lvs == resetLevels(setDefault(pass.pre, pass.prefix)) IN
    {lvs[h].Level, applyPrefixes(lvs, pass.prefix)[h].Level}

\* C14: an emit method can read its cell at every point of a running setLevels;
\* for the default cell it reads the level before the call or the resolved one,
\* for any other cell one of these or a level the call writes on its way: the
\* default level of the reset loop, or the level of the matching prefix before
\* the exact rule is written
C14_ReadsWrittenLevel ==
    /\ (Idle /\ seen = NoRead) => \A h \in 1..Len(levelVars) : ENABLED EmitRead(h)
    /\ seen.during =>
          /\ pass.stage # "none"
          /\ seen.pre = pass.pre[seen.h].Level
          /\ seen.fin = applyLevels(pass.pre, pass.exact, pass.prefix)[seen.h].Level
          /\ seen.h = 1 => seen.lv \in {seen.pre, seen.fin}
          /\ seen.h > 1 => seen.lv \in {seen.pre, seen.fin} \cup PassLevels(seen.h)

\* "a/b=2" is in effect and is applied again: an emit method reads a/b at the
\* default level info, between the reset and the exact rule
C14_Witness ==
    /\ seen.during
    /\ pass.value = <<"a", "/", "b", "=", "2">>
    /\ levelVars[seen.h].Name = <<"a", "/", "b">>
    /\ seen.pre = v2
    /\ seen.fin = v2
    /\ seen.lv = info

\* C15 as stated: with New and setLevels calls only, every cell other than the
\* default cell has the level that the rules of the last setLevels call and the
\* level of the default cell give its name
C15_AlwaysResolved ==
    \A i \in 2..Len(levelVars) :
        levelVars[i].Level =
            ResolvedLevel(levelVars[i].Name, lastConf.exact, lastConf.prefix,
                          levelVars[1].Level)

\* C15: with New and setLevels calls only, a cell that was there when setLevels
\* last returned has the level that its rules and the level of the default cell
\* give its name, and a cell made by New since then is at info, whatever the
\* default level and the rules are
C15_ResolvedUntilRegistered ==
    \A i \in 2..Len(levelVars) :
        levelVars[i].Level =
            IF i <= lastConf.n
            THEN ResolvedLevel(levelVars[i].Name, lastConf.exact, lastConf.prefix,
                               levelVars[1].Level)
            ELSE info

\* after "*=e,a/*=v1", with ab there and at err, New() of a/b: a/b is at info
C15_Witness ==
    /\ call.op = "newVar"
    /\ Len(levelVars) = 3
    /\ lastConf.n = 2
    /\ <<"a", "/">> \in DOMAIN lastConf.prefix
    /\ levelVars[1].Level = err
    /\ levelVars[2].Name = <<"a", "b">>
    /\ levelVars[2].Level = err
    /\ levelVars[3].Name = <<"a", "/", "b">>
    /\ levelVars[3].Level = info

\* C16: the level a Vset call returns is the level that its own store replaced
C16_VsetIsExchange ==
    \A g \in Setters : vset[g].pc = "return" => vset[g].old = vset[g].prev

\* two Vset calls on one cell, writing v1 and v2, are both about to return info
C16_Witness ==
    /\ vset["s1"].pc = "return"
    /\ vset["s2"].pc = "return"
    /\ vset["s1"].h = vset["s2"].h
    /\ vset["s1"].lv = v1
    /\ vset["s2"].lv = v2
    /\ vset["s1"].old = info
    /\ vset["s2"].old = info

-----------------------------------------------------------------------------
(* Properties of the rotating logger *)

\* where the fragment fr is on disk: <<file, position>>
OnDisk(fr) ==
    {<<k, i>> \in (1..Len(files)) \X (1..(2 * Len(lens))) :
        i <= Len(files[k].disk) /\ files[k].disk[i] = fr}

FragsOnDisk ==
    Cardinality({<<k, i>> \in (1..Len(files)) \X (1..(2 * Len(lens))) :
                    i <= Len(files[k].disk)})

AllReturned == \A g \in Goroutines : pc[g] = "idle"

\* C3: once every Log call has returned and a Flush has run after the last of
\* them, every line given to Log is in the files exactly once, its head directly
\* followed by its tail in one file, and the files hold nothing else
C3_EveryLineOnceWhole ==
    (AllReturned /\ synced) =>
        /\ buf = <<>>
        /\ FragsOnDisk = 2 * Len(lens)
        /\ \A id \in 1..Len(lens) :
              /\ Cardinality(OnDisk(Frags(id)[1])) = 1
              /\ Cardinality(OnDisk(Frags(id)[2])) = 1
              /\ \A at \in OnDisk(Frags(id)[1]) : <<at[1], at[2] + 1>> \in OnDisk(Frags(id)[2])

\* two goroutines logged concurrently (the second caller wrote first), files were
\* rotated, and all is flushed
C3_Witness ==
    /\ AllReturned
    /\ synced
    /\ Len(lens) >= 3
    /\ Len(files) >= 2
    /\ written[1] = 2
    /\ files[1].disk # <<>>

\* the ids of the lines in the file of rl.f, on disk or in its writer
ActiveLines ==
    {fr.id : fr \in {(ActiveFile.disk \o buf)[i] : i \in 1..Len(ActiveFile.disk \o buf)}}

RECURSIVE SumBytes(_)
SumBytes(ids) ==
    IF ids = {} THEN 0
    ELSE LET id == CHOOSE x \in ids : TRUE
         IN  logPrefixSize + lens[id] + SumBytes(ids \ {id})

\* the number of files that writing lines of the lengths ls[i..] takes, when the
\* current file is the n-th and holds nb bytes
RECURSIVE FilesFor(_, _, _, _)
FilesFor(ls, i, nb, n) ==
    IF i > Len(ls) THEN n
    ELSE IF nb > 0 /\ nb + logPrefixSize + ls[i] > logLimit
    THEN FilesFor(ls, i + 1, logPrefixSize + ls[i], n + 1)
    ELSE FilesFor(ls, i + 1, nb + logPrefixSize + ls[i], n)

WrittenLens == [i \in 1..Len(written) |-> lens[written[i]]]

\* no Log call is between taking the lock and writing its line
NoLogInProgress ==
    \A g \in Loggers : pc[g] \in {"idle", "Log:lock", "Log:unlock", "Flush:flush", "Flush:unlock"}

\* C4: a Log call rotates, once, exactly when the file held nb > 0 bytes as it took
\* the lock and nb + logPrefixSize + len(s) > logLimit, and not at all otherwise; its line is
\* then in the active file; after the call nbytes is the sum of 50 + len over the
\* lines of the active file, and the number of files is what that rule gives for
\* the lines written so far
C4_RotateExactlyOverLimit ==
    /\ \A g \in Loggers :
          pc[g] \in {"Log:output", "Log:unlock"} =>
              arg[g].rotated =
                  IF arg[g].nb0 > 0 /\ arg[g].nb0 + logPrefixSize + arg[g].len > logLimit
                  THEN 1 ELSE 0
    /\ \A g \in Loggers : pc[g] = "Log:unlock" => arg[g].id \in ActiveLines
    /\ (Constructed /\ NoLogInProgress) =>
          /\ nbytes = SumBytes(ActiveLines)
          /\ Len(files) = FilesFor(WrittenLens, 1, 0, 1)

\* the writes of TestRotateLogger: "a", "bc", 128 bytes, "def" make three files
C4_Witness ==
    /\ AllReturned
    /\ WrittenLens = <<1, 2, 128, 3>>
    /\ Len(files) = 3

C5_Ids ==
    /\ \A k \in 1..Len(files) : files[k].id = k - 1
    /\ nextID = Len(files)
    /\ Constructed => Len(files) = 1 + rotations

C5_Step ==
    /\ (nbytes' = 0 /\ nbytes # 0) => Len(files') = Len(files) + 1
    /\ Len(files') # Len(files) =>
          /\ Len(files') = Len(files) + 1
          /\ nbytes' = 0
          /\ Constructed => /\ rotations' = rotations + 1
                            /\ files'[Len(files')].id = files[Len(files)].id + 1
    /\ \A k \in 1..Len(files) : files'[k].id = files[k].id

\* C5: the k-th file the logger creates has id k (from 0), each rotation takes the
\* id after the last one, no id is changed or used twice, a run without rotation
\* has one file, and nbytes goes to 0 in a rotation and in no other step
C5_SequenceIds == []C5_Ids /\ [][C5_Step]_vars

\* a Log call has just rotated into the third file
C5_Witness ==
    \E g \in Loggers :
        /\ pc[g] = "Log:loop"
        /\ arg[g].rotated = 1
        /\ nbytes = 0
        /\ Len(files) = 3
        /\ files[3].id = 2

\* the line of goroutine g's Log call is nowhere: not handed to Output, in no
\* file and not in the writer
LineNowhere(g) ==
    /\ \A i \in 1..Len(written) : written[i] # arg[g].id
    /\ OnDisk(Frags(arg[g].id)[1]) = {}
    /\ OnDisk(Frags(arg[g].id)[2]) = {}
    /\ \A i \in 1..Len(buf) : buf[i].id # arg[g].id

C12_Fatal ==
    /\ ~Constructed =>
          /\ lens = <<>>
          /\ mu = NoOne
          /\ \A g \in Goroutines : pc[g] = "idle"
    /\ (Constructed /\ ~ActiveFile.open) => \E g \in Loggers : pc[g] = "panic"
    /\ \A g \in Loggers :
          pc[g] = "panic" =>
              /\ crashed
              /\ mu = g
              /\ ~ActiveFile.open
              /\ LineNowhere(g)
    /\ crashed => (~Constructed \/ \E g \in Loggers : pc[g] = "panic")

\* C12: when os.Create fails in newRotateLogger the process panics with no
\* rotateLogger returned, so that no Log or Flush ever runs on it; when it fails in
\* the rotate() of a Log call, that call panics, never returns, and its line is
\* handed to no writer and is in no file; nothing runs after either panic
C12_OpenFailureIsFatal == []C12_Fatal /\ [][~crashed]_vars

\* after a rotation that worked, the rotation of a later Log call fails
C12_Witness ==
    \E g \in Loggers :
        /\ pc[g] = "panic"
        /\ crashed
        /\ Len(files) = 2
        /\ Len(written) >= 2
        /\ LineNowhere(g)

\* the files read in the order of their ids, each from its start, then the writer
RECURSIVE Contents(_)
Contents(k) ==
    IF k > Len(files) THEN buf ELSE files[k].disk \o Contents(k + 1)

\* the lines ids as the writer gets them: each a head and a tail
RECURSIVE FragsOf(_)
FragsOf(ids) ==
    IF ids = <<>> THEN <<>> ELSE Frags(Head(ids)) \o FragsOf(Tail(ids))

LockedIds == [i \in 1..Len(locked) |-> locked[i].id]

\* C17: the files read by increasing id, each front to back, and then the writer
\* hold the lines in the order in which their Log calls took rl.mu (the call that
\* holds rl.mu may not have written yet); the ids of the files increase; and the
\* lines of one goroutine are in the order of its calls
C17_LockOrder ==
    /\ Contents(1) = FragsOf(written)
    /\ \/ written = LockedIds
       \/ /\ Len(locked) = Len(written) + 1
          /\ written = SubSeq(LockedIds, 1, Len(written))
          /\ mu = locked[Len(locked)].g
          /\ pc[mu] \in {"Log:loop", "Log:rotate", "Log:output", "panic"}
    /\ \A k \in 1..(Len(files) - 1) : files[k].id < files[k + 1].id
    /\ \A i, j \in 1..Len(locked) :
          (i < j /\ locked[i].g = locked[j].g) => locked[i].id < locked[j].id

\* g2 called Log after g1 and took rl.mu before it, g1's line made the file
\* rotate: g2's line is in the first file and g1's in the second
C17_Witness ==
    /\ AllReturned
    /\ synced
    /\ Len(locked) = 2
    /\ locked[1] = [id |-> 2, g |-> "g2"]
    /\ locked[2] = [id |-> 1, g |-> "g1"]
    /\ Len(files) = 2
    /\ files[1].disk = Frags(2)
    /\ files[2].disk = Frags(1)

C18_OneRotation ==
    /\ \A g \in Loggers : arg[g].rotated <= 1
    /\ \A g \in Loggers : (pc[g] = "Log:loop" /\ arg[g].rotated = 1) => nbytes = 0
    /\ \A g \in Goroutines :
          pc[g] \in {"Log:loop", "Log:rotate", "Log:output", "Log:unlock", "Flush:flush",
                     "Flush:unlock", "panic"} <=> mu = g

-----------------------------------------------------------------------------
(* C19: flushloop makes buffered lines durable *)

\* some bytes of the line id are in rl.wr
InBuf(id) == \E i \in 1..Len(buf) : buf[i].id = id

\* the whole line id is in a file
Durable(id) == OnDisk(Frags(id)[1]) # {} /\ OnDisk(Frags(id)[2]) # {}

\* C19: under fairness of flushloop, which runs from construction until the
\* process ends, flushloop calls Flush again and again, and every line of which
\* bytes are in the writer is eventually whole in a file, whether or not a later
\* Log, Flush or rotation is issued
C19_BufferedBecomesDurable ==
    /\ \A id \in 1..MaxLogs : InBuf(id) ~> Durable(id)
    /\ (Constructed /\ ~crashed) ~> (pc[Flushloop] = "Flush:flush" \/ crashed)

\* the line of a Log call that has returned is in the writer, no call of the
\* program is under way, and flushloop is about to flush
C19_Witness ==
    /\ \A g \in Loggers : pc[g] = "idle"
    /\ pc[Flushloop] = "Flush:flush"
    /\ rotations = 0
    /\ InBuf(1)
    /\ ~Durable(1)

-----------------------------------------------------------------------------
(* C20: what setLevels does to the default cell and to the list of cells *)

\* the rule "*"
IsBareStar(r) == r.k = <<"*">>

\* the rule "*" and the rules "/*", "//*", ...: a "*" after slashes only
IsRootRule(r) ==
    /\ r.k # <<>>
    /\ r.k[Len(r.k)] = "*"
    /\ \A i \in 1..(Len(r.k) - 1) : r.k[i] = "/"

\* the position of the last rule of rs that Is, 0 when there is none
LastOf(rs, Is(_)) ==
    LET S == {i \in 1..Len(rs) : Is(rs[i])} IN
    IF S = {} THEN 0 ELSE CHOOSE i \in S : \A j \in S : j <= i

SetLevelsReturned == call.op = "setLevels" /\ ~call.exported /\ ~call.panicked

SameCells ==
    /\ Len(levelVars) = Len(call.pre)
    /\ NamesOf(levelVars) = NamesOf(call.pre)

\* C20 as stated: after setLevels the default cell has the level of the rule
\* "*" of the string, and the level it had before the call when the string has
\* no rule "*"; the cells and their order are those before the call
C20_OnlyBareStar ==
    SetLevelsReturned =>
        LET i == LastOf(call.rules, IsBareStar) IN
        /\ levelVars[1].Level = IF i > 0 THEN parseLevel(call.rules[i].v).lv
                                 ELSE call.pre[1].Level
        /\ SameCells

\* C20: after a setLevels that returns, the default cell has the level of
\* the last rule of the string that is "*" or a "*" after slashes only ("/*"),
\* and the level it had before the call when the string has no such rule; the cells
\* and their order are those before the call; a setLevels that panics changes nothing
C20_RootByWildcard ==
    /\ SetLevelsReturned =>
          LET i == LastOf(call.rules, IsRootRule) IN
          /\ levelVars[1].Level = IF i > 0 THEN parseLevel(call.rules[i].v).lv
                                   ELSE call.pre[1].Level
          /\ SameCells
    /\ (call.op = "setLevels" /\ call.panicked) => levelVars = call.pre

\* three cells, the default cell put at v1 by Vset; setLevels with an exact and a
\* prefix rule of a package and no wildcard has left it at v1
C20_Witness ==
    /\ SetLevelsReturned
    /\ Len(call.rules) = 2
    /\ \A i \in 1..2 : ~IsRootRule(call.rules[i])
    /\ \E i \in 1..2 : call.rules[i].k = <<"a", "/", "*">>
    /\ \E i \in 1..2 : call.rules[i].k = <<"a", "/", "b">>
    /\ Len(levelVars) = 3
    /\ call.pre[1].Level = v1
    /\ levelVars[1].Level = v1
    /\ \E h \in 2..3 : levelVars[h].Level # call.pre[h].Level

-----------------------------------------------------------------------------
(* C21: what Flush leaves alone *)

FlushPcs == {"Flush:lock", "Flush:flush", "Flush:unlock"}

\* the step is one of a Flush call of g: its call, its rl.mu.Lock(), its
\* rl.wr.Flush() or its rl.mu.Unlock()
FlushStepOf(g) == pc'[g] # pc[g] /\ (pc[g] \in FlushPcs \/ pc'[g] \in FlushPcs)

C21_Step ==
    \A g \in Goroutines :
        FlushStepOf(g) =>
            /\ Len(files') = Len(files)
            /\ \A k \in 1..(Len(files) - 1) : files'[k] = files[k]
            /\ files'[Len(files)].id = ActiveFile.id
            /\ files'[Len(files)].open = ActiveFile.open
            /\ files'[Len(files)].disk \o buf' = ActiveFile.disk \o buf
            /\ buf' \in {buf, <<>>}
            /\ UNCHANGED <<nextID, nbytes, rotations, lens, written, locked, arg, crashed>>
            /\ buf = <<>> => UNCHANGED <<files, buf>>

\* C21: no step of a Flush call, of the program or of flushloop, makes a file,
\* closes one, or changes the id of rl.f, rl.nextID, rl.nbytes or the lines logged
\* and their order; it moves what the writer holds to the end of rl.f and
\* nothing else, so that a Flush on an empty writer changes nothing
C21_FlushNeverRotates == [][C21_Step]_vars

\* a Flush has run since the last Log wrote, after a rotation, and the next Flush
\* is at its rl.wr.Flush() with lines in the file
C21_Witness ==
    \E g \in Goroutines :
        /\ pc[g] = "Flush:flush"
        /\ synced
        /\ buf = <<>>
        /\ Len(files) >= 2
        /\ ActiveFile.disk # <<>>
        /\ nbytes > 0

-----------------------------------------------------------------------------
(* C22: the size of a file *)

\* the ids of the lines of the k-th file, on disk or, for rl.f, in its writer
LinesOf(k) ==
    LET held == IF k = Len(files) THEN files[k].disk \o buf ELSE files[k].disk IN
    {held[i].id : i \in 1..Len(held)}

\* what Log added to rl.nbytes for the lines of the k-th file
AccountedSize(k) == SumBytes(LinesOf(k))

\* C22: whenever rl.mu is free, rl.nbytes is the accounted size of rl.f and is over
\* logLimit only if rl.f holds exactly one line; every file that holds two lines
\* or more has an accounted size of at most logLimit; and every file that a Log
\* call opened, and every file that was rotated away, holds at least one line
C22_SizeBound ==
    (Constructed /\ mu = NoOne) =>
        /\ nbytes = AccountedSize(Len(files))
        /\ nbytes > logLimit => Cardinality(LinesOf(Len(files))) = 1
        /\ \A k \in 1..Len(files) :
              /\ Cardinality(LinesOf(k)) >= 2 => AccountedSize(k) <= logLimit
              /\ (k > 1 \/ k < Len(files)) => LinesOf(k) # {}

\* rl.mu is free and every call has returned; the second file holds two lines
\* and the third one a single line that is over logLimit by itself
C22_Witness ==
    /\ mu = NoOne
    /\ AllReturned
    /\ Len(files) = 3
    /\ Cardinality(LinesOf(2)) = 2
    /\ Cardinality(LinesOf(3)) = 1
    /\ nbytes > logLimit

=============================================================================
